---- MODULE Spec2Model ----
(***************************************************************************)
(* A model of influxdata/pkg-config: the pkg-config wrapper (src/main.go)  *)
(* and the flux library resolver/builder (src/libs/flux/build.go).         *)
(*                                                                         *)
(* Strings are sequences of atoms.  An atom is one character ("v", ".",    *)
(* "/", "@", "-", "=", a decimal digit, "\n") or a word of letters that    *)
(* holds none of those characters ("github", "flux", "CC", ...).           *)
(***************************************************************************)
EXTENDS Integers, Sequences, FiniteSets, TLC

\* ------------------------------------------------------------------------
\* Bounds of the model
\* ------------------------------------------------------------------------

\* version components 0..MaxNum (plus 9 and 10, which cross a digit boundary)
MaxNum == 2

\* a manifest holds at most MaxEntries replace and MaxEntries require directives
MaxEntries == 2

\* the ambient environment holds at most MaxEnvLen entries
MaxEnvLen == 3

\* PATH holds at most MaxPathLen entries
MaxPathLen == 3

\* ------------------------------------------------------------------------
\* Strings
\* ------------------------------------------------------------------------

\* F(v), with v evaluated once
Bind(v, F(_)) == CHOOSE r \in {F(x) : x \in {v}} : TRUE

\* the least element of a non-empty set of numbers
Least(S) == CHOOSE x \in S : \A y \in S : x <= y

Digits == <<"0", "1", "2", "3", "4", "5", "6", "7", "8", "9">>

IsDigit(c) == c \in {"0", "1", "2", "3", "4", "5", "6", "7", "8", "9"}

DigitVal(c) == (CHOOSE i \in 1..10 : Digits[i] = c) - 1

IsSpace(c) == c \in {" ", "\n", "\t"}

\* strings.HasPrefix
HasPrefix(s, p) == Len(s) >= Len(p) /\ \A i \in 1..Len(p) : s[i] = p[i]

\* the index of the first atom of s, from i on, that is no white space
RECURSIVE SkipSpace(_, _)
SkipSpace(s, i) == IF i <= Len(s) /\ IsSpace(s[i]) THEN SkipSpace(s, i + 1) ELSE i

\* the index of the last atom of s, up to j, that is no white space
RECURSIVE SkipSpaceBack(_, _)
SkipSpaceBack(s, j) == IF j >= 1 /\ IsSpace(s[j]) THEN SkipSpaceBack(s, j - 1) ELSE j

\* strings.TrimSpace
TrimSpace(str) ==
    Bind(str, LAMBDA s : SubSeq(s, SkipSpace(s, 1), SkipSpaceBack(s, Len(s))))

\* strconv: the value of the decimal digits s[i..j]
RECURSIVE ParseNat(_, _, _)
ParseNat(s, i, j) == IF j < i THEN 0 ELSE 10 * ParseNat(s, i, j - 1) + DigitVal(s[j])

\* fmt %d: a natural number to its decimal digits
RECURSIVE FormatNat(_)
FormatNat(n) ==
    IF n < 10 THEN <<Digits[n + 1]>> ELSE FormatNat(n \div 10) \o <<Digits[(n % 10) + 1]>>

\* ------------------------------------------------------------------------
\* Regular expressions of build.go
\* ------------------------------------------------------------------------

\* \d+ is greedy: the index of the last digit of the run starting at i (i-1: no digit)
RECURSIVE DigitsEnd(_, _)
DigitsEnd(s, i) == IF i <= Len(s) /\ IsDigit(s[i]) THEN DigitsEnd(s, i + 1) ELSE i - 1

\* \d+\. anchored at i: the index of the "." after the digits, 0 when it does not match
NumDot(s, i) ==
    Bind(DigitsEnd(s, i), LAMBDA a :
        IF a >= i /\ a + 1 <= Len(s) /\ s[a + 1] = "." THEN a + 1 ELSE 0)

\* v\d+\.\d+\.\d+ anchored at i: the index of its last atom, 0 when it does not match
VerEnd(s, i) ==
    IF ~(i <= Len(s) /\ s[i] = "v") THEN 0
    ELSE Bind(NumDot(s, i + 1), LAMBDA a :
            IF a = 0 THEN 0
            ELSE Bind(NumDot(s, a + 1), LAMBDA b :
                    IF b = 0 THEN 0
                    ELSE Bind(DigitsEnd(s, b + 1), LAMBDA c : IF c < b + 1 THEN 0 ELSE c)))

\* .* stops before a line break: the index of the last atom of the line starting at i
RECURSIVE LineEnd(_, _)
LineEnd(s, i) == IF i <= Len(s) /\ s[i] # "\n" THEN LineEnd(s, i + 1) ELSE i - 1

NoMatch == [ok |-> FALSE, m1 |-> <<>>, m2 |-> <<>>]

\* regexp (v\d+\.\d+\.\d+)(-.*)? . FindStringSubmatch: the leftmost match
reGitDescribe(str) ==
    Bind(str, LAMBDA s :
        Bind({i \in 1..Len(s) : VerEnd(s, i) # 0}, LAMBDA starts :
            IF starts = {} THEN NoMatch
            ELSE Bind(Least(starts), LAMBDA i :
                    Bind(VerEnd(s, i), LAMBDA e :
                        [ok |-> TRUE,
                         m1 |-> SubSeq(s, i, e),
                         m2 |-> IF e + 1 <= Len(s) /\ s[e + 1] = "-"
                                THEN SubSeq(s, e + 1, LineEnd(s, e + 1)) ELSE <<>>]))))

\* the literal head of the module-cache pattern: /github\.com/influxdata\/flux@
cacheSegment == <<"/", "github", ".", "com", "/", "influxdata", "/", "flux", "@">>

\* s holds the atoms of p from index i on
HasAt(s, i, p) == i + Len(p) - 1 <= Len(s) /\ \A k \in 1..Len(p) : s[i + k - 1] = p[k]

\* regexp /github\.com/influxdata\/flux@(v\d+\.\d+\.\d+.*)$ . FindStringSubmatch
reModulePath(path) ==
    Bind(path, LAMBDA dir :
        Bind({i \in 1..Len(dir) :
                 /\ HasAt(dir, i, cacheSegment)
                 /\ VerEnd(dir, i + Len(cacheSegment)) # 0
                 /\ LineEnd(dir, i + Len(cacheSegment)) = Len(dir)}, LAMBDA starts :
            IF starts = {} THEN NoMatch
            ELSE [ok |-> TRUE,
                  m1 |-> SubSeq(dir, Least(starts) + Len(cacheSegment), Len(dir)),
                  m2 |-> <<>>]))

\* ------------------------------------------------------------------------
\* github.com/Masterminds/semver, as getVersionFromGit uses it
\* ------------------------------------------------------------------------

\* semver.NewVersion on a string the regexp group 1 matched: v<major>.<minor>.<patch>
semverNewVersion(str) ==
    Bind(str, LAMBDA s :
        Bind(DigitsEnd(s, 2), LAMBDA a :
            Bind(DigitsEnd(s, a + 2), LAMBDA b :
                [major |-> ParseNat(s, 2, a),
                 minor |-> ParseNat(s, a + 2, b),
                 patch |-> ParseNat(s, b + 2, DigitsEnd(s, b + 2))])))

\* Version.IncMinor: minor + 1, patch 0, pre-release and metadata dropped
semverIncMinor(v) == [major |-> v.major, minor |-> v.minor + 1, patch |-> 0]

\* Version.String: <major>.<minor>.<patch>, no leading v
semverString(v) ==
    FormatNat(v.major) \o <<".">> \o FormatNat(v.minor) \o <<".">> \o FormatNat(v.patch)

\* ------------------------------------------------------------------------
\* Version Resolver
\* ------------------------------------------------------------------------

VersionErr == [err |-> TRUE, v |-> <<>>]

\* getVersionFromGit without line 389: the minor version is not incremented
getVersionFromGit_noIncMinor(git) ==
    IF git.err THEN VersionErr
    ELSE Bind(reGitDescribe(TrimSpace(git.out)), LAMBDA m :
            IF ~m.ok THEN VersionErr
            ELSE IF m.m2 = <<>> THEN [err |-> FALSE, v |-> Tail(m.m1)]
            ELSE [err |-> FALSE, v |-> <<"v">> \o semverString(semverNewVersion(m.m1))])

\* getVersionFromGit(dir, logger), given what the git describe subprocess answered
\* in dir: git.err is a non-zero exit, git.out its standard output
getVersionFromGit(git) ==
    IF git.err THEN VersionErr
    ELSE Bind(reGitDescribe(TrimSpace(git.out)), LAMBDA m :
            IF ~m.ok THEN VersionErr
            ELSE IF m.m2 = <<>> THEN [err |-> FALSE, v |-> Tail(m.m1)]
            ELSE [err |-> FALSE,
                  v |-> <<"v">> \o semverString(semverIncMinor(semverNewVersion(m.m1)))])

\* getVersionFromPath(dir)
getVersionFromPath(dir) ==
    Bind(reModulePath(dir), LAMBDA m :
        IF ~m.ok THEN VersionErr ELSE [err |-> FALSE, v |-> m.m1])

\* getVersion(dir, logger): the path first, git only when the path did not match.
\* git tells whether the subprocess was run.
getVersion(dir, git) ==
    Bind(getVersionFromPath(dir), LAMBDA p :
        IF ~p.err THEN [err |-> FALSE, v |-> p.v, git |-> FALSE]
        ELSE Bind(getVersionFromGit(git), LAMBDA g :
                IF ~g.err THEN [err |-> FALSE, v |-> g.v, git |-> TRUE]
                ELSE [err |-> TRUE, v |-> <<>>, git |-> TRUE]))

\* ------------------------------------------------------------------------
\* path/filepath
\* ------------------------------------------------------------------------

\* the components of s[i..]: the runs of atoms between "/" separators
RECURSIVE Components(_, _, _)
Components(s, i, cur) ==
    IF i > Len(s) THEN <<cur>>
    ELSE IF s[i] = "/" THEN <<cur>> \o Components(s, i + 1, <<>>)
    ELSE Components(s, i + 1, Append(cur, s[i]))

\* filepath.Clean on the components cs[i..]: "" and "." are dropped, ".." takes
\* back the component before it
RECURSIVE CleanComponents(_, _, _, _)
CleanComponents(cs, i, rooted, acc) ==
    IF i > Len(cs) THEN acc
    ELSE IF cs[i] = <<>> \/ cs[i] = <<".">> THEN CleanComponents(cs, i + 1, rooted, acc)
    ELSE IF cs[i] # <<".", ".">> THEN CleanComponents(cs, i + 1, rooted, Append(acc, cs[i]))
    ELSE Bind(acc, LAMBDA a :
            IF a # <<>> /\ a[Len(a)] # <<".", ".">>
            THEN CleanComponents(cs, i + 1, rooted, SubSeq(a, 1, Len(a) - 1))
            ELSE IF rooted THEN CleanComponents(cs, i + 1, rooted, a)
            ELSE CleanComponents(cs, i + 1, rooted, Append(a, cs[i])))

RECURSIVE JoinComponents(_, _)
JoinComponents(cs, i) ==
    IF i > Len(cs) THEN <<>>
    ELSE IF i = Len(cs) THEN cs[i]
    ELSE cs[i] \o <<"/">> \o JoinComponents(cs, i + 1)

\* filepath.Clean
Clean(path) ==
    Bind(path, LAMBDA s :
        Bind(s # <<>> /\ s[1] = "/", LAMBDA rooted :
            Bind(CleanComponents(Components(s, 1, <<>>), 1, rooted, <<>>), LAMBDA cs :
                IF rooted THEN <<"/">> \o JoinComponents(cs, 1)
                ELSE IF cs = <<>> THEN <<".">> ELSE JoinComponents(cs, 1))))

\* filepath.Join of two elements: empty elements are ignored, the result is cleaned
Join(x, y) ==
    Bind(x, LAMBDA a :
        Bind(y, LAMBDA b :
            IF a = <<>> /\ b = <<>> THEN <<>>
            ELSE IF a = <<>> THEN Clean(b)
            ELSE IF b = <<>> THEN Clean(a)
            ELSE Clean(a \o <<"/">> \o b)))

\* filepath.Abs in a process whose working directory is cwd
Abs(cwd, s) == IF s # <<>> /\ s[1] = "/" THEN Clean(s) ELSE Join(cwd, s)

\* ------------------------------------------------------------------------
\* Target
\* ------------------------------------------------------------------------

\* Target.String
TargetString(t) ==
    t.OS \o <<"_">> \o t.Arch
        \o (IF t.Arm # <<>> THEN <<"v">> \o t.Arm ELSE <<>>)
        \o (IF t.Static THEN <<"_static">> ELSE <<>>)

\* the switch of Target.DetermineCargoTarget: the cargo triple of the case that
\* matches, and for the default case no triple and logger.Warn
cargoSwitch(t) ==
    CASE t.OS = <<"linux">> /\ t.Arch = <<"amd64">> /\ t.Static
            -> [triple |-> <<"x86_64-unknown-linux-musl">>, warn |-> FALSE]
      [] t.OS = <<"linux">> /\ t.Arch = <<"amd64">> /\ ~t.Static
            -> [triple |-> <<"x86_64-unknown-linux-gnu">>, warn |-> FALSE]
      [] t.OS = <<"linux">> /\ t.Arch = <<"386">> /\ ~t.Static
            -> [triple |-> <<"i686-unknown-linux-gnu">>, warn |-> FALSE]
      [] t.OS = <<"linux">> /\ t.Arch = <<"arm">> /\ t.Arm = <<"6">> /\ ~t.Static
            -> [triple |-> <<"arm-unknown-linux-gnueabihf">>, warn |-> FALSE]
      [] t.OS = <<"linux">> /\ t.Arch = <<"arm">> /\ t.Arm = <<"7">> /\ ~t.Static
            -> [triple |-> <<"armv7-unknown-linux-gnueabihf">>, warn |-> FALSE]
      [] t.OS = <<"linux">> /\ t.Arch = <<"arm64">> /\ ~t.Static
            -> [triple |-> <<"aarch64-unknown-linux-gnueabihf">>, warn |-> FALSE]
      [] t.OS = <<"darwin">> /\ t.Arch = <<"amd64">>
            -> [triple |-> <<"x86_64-apple-darwin">>, warn |-> FALSE]
      [] t.OS = <<"windows">> /\ t.Arch = <<"amd64">>
            -> [triple |-> <<"x86_64-pc-windows-gnu">>, warn |-> FALSE]
      [] OTHER -> [triple |-> <<>>, warn |-> TRUE]

\* the switch with the static flag not looked at
DetermineCargoTarget_staticIgnored(t) == cargoSwitch([t EXCEPT !.Static = FALSE]).triple

\* Target.DetermineCargoTarget: the cargo triple, <<>> when the table has none
DetermineCargoTarget(t) == cargoSwitch(t).triple

\* ------------------------------------------------------------------------
\* Native Builder: the command Library.build runs
\* ------------------------------------------------------------------------

\* removeEnvVar(env, key): the first entry that begins with key= is cut out
removeEnvVar(environ, key) ==
    Bind(environ, LAMBDA env :
        Bind({i \in 1..Len(env) : HasPrefix(env[i], <<key, "=">>)}, LAMBDA hits :
            IF hits = {} THEN env
            ELSE Bind(Least(hits), LAMBDA i :
                    SubSeq(env, 1, i - 1) \o SubSeq(env, i + 1, Len(env)))))

\* Library.build up to cmd.Run: the arguments, directory and environment of the
\* cargo command, and the target directory build returns when cargo succeeds
buildCmd(l, environ) ==
    Bind(DetermineCargoTarget(l.Target), LAMBDA targetString :
        Bind(Join(l.Dir, <<"libflux">>), LAMBDA dir :
            [Args |-> IF targetString # <<>>
                      THEN <<"build", "--release", "--target">> \o targetString
                      ELSE <<"build", "--release">>,
             Dir |-> dir,
             Env |-> IF targetString # <<>>
                     THEN removeEnvVar(removeEnvVar(removeEnvVar(environ, "CC"), "CXX"), "AR")
                     ELSE environ,
             warned |-> cargoSwitch(l.Target).warn,
             targetDir |-> Join(Join(Join(dir, <<"target">>), targetString), <<"release">>)]))

\* ------------------------------------------------------------------------
\* Module Locator
\* ------------------------------------------------------------------------

\* const modulePath = "github.com/influxdata/flux"
modulePath == <<"github", ".", "com", "/", "influxdata", "/", "flux">>

NoVersion == [Path |-> <<>>, Version |-> <<>>]

\* What findModule hands back: module.Version, directory, error; and what it did
\* on the way: git (git describe was run), download (go mod download was run),
\* arg (the module.Version handed to getModule, NoVersion when getModule was not called)
ModErr(git, download, arg) ==
    [err |-> TRUE, ver |-> NoVersion, dir |-> <<>>,
     git |-> git, download |-> download, arg |-> arg]

\* downloadModule: dl is what `go mod download -json` answered
downloadModule(dl, arg) ==
    IF dl.err \/ dl.malformed THEN ModErr(FALSE, TRUE, arg)
    ELSE [err |-> FALSE, ver |-> [Path |-> dl.Path, Version |-> dl.Version],
          dir |-> dl.Dir, git |-> FALSE, download |-> TRUE, arg |-> arg]

\* getModule that fetches whatever the path is
getModule_alwaysFetch(ver, cwd, git, dl) == downloadModule(dl, ver)

\* getModule(ver, logger)
getModule(ver, cwd, git, dl) ==
    IF HasPrefix(ver.Path, <<"/">>) \/ HasPrefix(ver.Path, <<".">>)
    THEN Bind(getVersion(ver.Path, git), LAMBDA v :
            IF v.err THEN ModErr(v.git, FALSE, ver)
            ELSE [err |-> FALSE, ver |-> [Path |-> <<>>, Version |-> v.v],
                  dir |-> Abs(cwd, ver.Path), git |-> v.git, download |-> FALSE,
                  arg |-> ver])
    ELSE downloadModule(dl, ver)

\* findModule with the two loops swapped: the require list before the replace list
findModule_requireFirst(mod, root, cwd, git, dl) ==
    IF mod.Module = modulePath
    THEN Bind(getVersion(root, git), LAMBDA v :
            IF v.err THEN ModErr(v.git, FALSE, NoVersion)
            ELSE [err |-> FALSE, ver |-> [Path |-> modulePath, Version |-> v.v],
                  dir |-> root, git |-> v.git, download |-> FALSE, arg |-> NoVersion])
    ELSE Bind({i \in 1..Len(mod.Require) : mod.Require[i].Path = modulePath},
              LAMBDA reqs :
            IF reqs # {} THEN getModule(mod.Require[Least(reqs)], cwd, git, dl)
            ELSE Bind({i \in 1..Len(mod.Replace) : mod.Replace[i].Old.Path = modulePath},
                      LAMBDA reps :
                    IF reps # {} THEN getModule(mod.Replace[Least(reps)].New, cwd, git, dl)
                    ELSE ModErr(FALSE, FALSE, NoVersion)))

\* findModule without the main-module test of line 259
findModule_noMainModule(mod, root, cwd, git, dl) ==
    Bind({i \in 1..Len(mod.Replace) : mod.Replace[i].Old.Path = modulePath},
         LAMBDA reps :
        IF reps # {} THEN getModule(mod.Replace[Least(reps)].New, cwd, git, dl)
        ELSE Bind({i \in 1..Len(mod.Require) : mod.Require[i].Path = modulePath},
                  LAMBDA reqs :
                IF reqs # {} THEN getModule(mod.Require[Least(reqs)], cwd, git, dl)
                ELSE ModErr(FALSE, FALSE, NoVersion)))

\* findModule(mod, logger): the main module, then the replace list, then the
\* require list, each in file order
findModule(mod, root, cwd, git, dl) ==
    IF mod.Module = modulePath
    THEN Bind(getVersion(root, git), LAMBDA v :
            IF v.err THEN ModErr(v.git, FALSE, NoVersion)
            ELSE [err |-> FALSE, ver |-> [Path |-> modulePath, Version |-> v.v],
                  dir |-> root, git |-> v.git, download |-> FALSE, arg |-> NoVersion])
    ELSE Bind({i \in 1..Len(mod.Replace) : mod.Replace[i].Old.Path = modulePath},
              LAMBDA reps :
            IF reps # {} THEN getModule(mod.Replace[Least(reps)].New, cwd, git, dl)
            ELSE Bind({i \in 1..Len(mod.Require) : mod.Require[i].Path = modulePath},
                      LAMBDA reqs :
                    IF reqs # {} THEN getModule(mod.Require[Least(reqs)], cwd, git, dl)
                    ELSE ModErr(FALSE, FALSE, NoVersion)))

\* ------------------------------------------------------------------------
\* Inputs: what the collaborators (git, go, the manifest, the environment) supply
\* ------------------------------------------------------------------------

SeqsUpTo(S, n) == UNION {[1..k -> S] : k \in 0..n}

Nums == (0..MaxNum) \cup {9, 10}

Tag(M, m, p) ==
    <<"v">> \o FormatNat(M) \o <<".">> \o FormatNat(m) \o <<".">> \o FormatNat(p)

\* -<commits since the tag>-g<hash>
CommitSuffix(n) == <<"-">> \o FormatNat(n) \o <<"-", "gabcdef">>

CommitCounts == {1, 14}

ExactDescribe == {Tag(M, m, p) \o <<"\n">> : M \in Nums, m \in Nums, p \in Nums}

SuffixedDescribe ==
    {Tag(M, m, p) \o CommitSuffix(n) \o <<"\n">> :
        M \in Nums, m \in Nums, p \in Nums, n \in CommitCounts}

\* describe output that is no v<major>.<minor>.<patch> tag
OtherDescribe ==
    {<<"1", ".", "2", ".", "3", "\n">>,
     <<"v", "1", ".", "2", "\n">>,
     <<"nightly", "\n">>,
     <<"\n">>}

GitOk(out) == [err |-> FALSE, out |-> out]

GitFailed == [err |-> TRUE, out |-> <<>>]

GitAnswers ==
    {GitFailed} \cup {GitOk(o) : o \in ExactDescribe \cup SuffixedDescribe \cup OtherDescribe}

\* the few answers the locator and the pipeline are run against
FewGitAnswers ==
    {GitFailed,
     GitOk(Tag(0, 5, 0) \o <<"\n">>),
     GitOk(Tag(1, 2, 9) \o CommitSuffix(4) \o <<"\n">>)}

\* the directory that holds go.mod, and a working directory below it
modroot == <<"/", "work", "/", "app">>

subdir == <<"/", "work", "/", "app", "/", "cmd">>

modCache == <<"/", "go", "/", "pkg", "/", "mod">>

\* <module cache>/github.com/influxdata/flux@<version>
CacheDir(v) == modCache \o cacheSegment \o v

relFlux == <<".", ".", "/", "flux">>

absFlux == <<"/", "src", "/", "flux">>

\* the last is a module-cache directory written with a trailing separator, as a
\* replace directive may name it (getModule hands ver.Path on as it is written)
Dirs ==
    {modroot, relFlux, absFlux, CacheDir(Tag(1, 2, 3)),
     CacheDir(Tag(0, 10, 0) \o <<"-", "rc1">>),
     CacheDir(Tag(0, 5, 0)) \o <<"/">>}

hostPath == <<"github", ".", "com", "/", "acme", "/", "app">>

otherPath == <<"github", ".", "com", "/", "acme", "/", "lib">>

forkPath == <<"github", ".", "com", "/", "fork", "/", "flux">>

ModVer(path, v) == [Path |-> path, Version |-> v]

ReplaceEntries ==
    {[Old |-> ModVer(old, <<>>), New |-> new] :
        old \in {modulePath, otherPath},
        new \in {ModVer(relFlux, <<>>), ModVer(forkPath, Tag(1, 0, 0))}}
        \cup {[Old |-> ModVer(modulePath, <<>>), New |-> ModVer(absFlux, <<>>)]}

RequireEntries == {ModVer(modulePath, Tag(0, 5, 0)), ModVer(otherPath, Tag(1, 0, 0))}

Manifests ==
    {[Module |-> m, Replace |-> rp, Require |-> rq] :
        m \in {modulePath, hostPath},
        rp \in SeqsUpTo(ReplaceEntries, MaxEntries),
        rq \in SeqsUpTo(RequireEntries, MaxEntries)}

DlFailed == [err |-> TRUE, malformed |-> FALSE, Dir |-> <<>>, Path |-> <<>>, Version |-> <<>>]

DlMalformed == [err |-> FALSE, malformed |-> TRUE, Dir |-> <<>>, Path |-> <<>>, Version |-> <<>>]

DlOk(v) ==
    [err |-> FALSE, malformed |-> FALSE, Dir |-> CacheDir(v), Path |-> modulePath, Version |-> v]

DlAnswers == {DlFailed, DlMalformed, DlOk(Tag(0, 5, 0))}

OSes == {<<"linux">>, <<"darwin">>, <<"windows">>, <<"freebsd">>}

Arches == {<<"amd64">>, <<"386">>, <<"arm">>, <<"arm64">>}

ArmVariants == {<<"5">>, <<"6">>, <<"7">>}

\* the targets getTarget can return: GOARM is read only for GOARCH=arm
Targets ==
    {[OS |-> os, Arch |-> arch, Arm |-> arm, Static |-> st] :
        os \in OSes, arch \in Arches, arm \in ArmVariants \cup {<<>>}, st \in BOOLEAN}

GetTargets == {t \in Targets : (t.Arch = <<"arm">>) <=> (t.Arm # <<>>)}

\* the targets getTarget returns for any GOARCH of the environment: GOOS, GOARCH
\* and GOARM are taken as they are set (lines 407, 417, 429), and GOARM is read
\* only when GOARCH is exactly arm, so GOARCH=armv7 gives Arch armv7 and no Arm
EnvTargets ==
    GetTargets
        \cup {[OS |-> os, Arch |-> <<"arm", "v", "7">>, Arm |-> <<>>, Static |-> st] :
                 os \in OSes, st \in BOOLEAN}

EnvEntries ==
    {<<"CC", "=", "gcc">>, <<"CC", "=", "clang">>, <<"CXX", "=", "g++">>,
     <<"AR", "=", "ar">>, <<"PATH", "=", "/", "bin">>}

Environs == SeqsUpTo(EnvEntries, MaxEnvLen)

Lib(path, version, dir, target) ==
    [Path |-> path, Version |-> version, Dir |-> dir, Target |-> target]

\* the inputs one run of the wrapper is followed through
PipeManifests ==
    {[Module |-> modulePath, Replace |-> <<>>, Require |-> <<>>],
     [Module |-> hostPath, Replace |-> <<>>, Require |-> <<ModVer(modulePath, Tag(0, 5, 0))>>],
     [Module |-> hostPath,
      Replace |-> <<[Old |-> ModVer(modulePath, <<>>), New |-> ModVer(relFlux, <<>>)]>>,
      Require |-> <<ModVer(modulePath, Tag(0, 5, 0))>>],
     [Module |-> hostPath,
      Replace |-> <<[Old |-> ModVer(modulePath, <<>>),
                     New |-> ModVer(CacheDir(Tag(1, 2, 3)), <<>>)]>>,
      Require |-> <<>>],
     [Module |-> hostPath, Replace |-> <<>>, Require |-> <<ModVer(otherPath, Tag(1, 0, 0))>>]}

Target(os, arch, arm, static) == [OS |-> os, Arch |-> arch, Arm |-> arm, Static |-> static]

PipeTargets ==
    {Target(<<"linux">>, <<"amd64">>, <<>>, TRUE),
     Target(<<"linux">>, <<"arm">>, <<"7">>, FALSE),
     Target(<<"darwin">>, <<"amd64">>, <<>>, TRUE),
     Target(<<"freebsd">>, <<"amd64">>, <<>>, FALSE)}

PipeEnvirons ==
    {<<<<"PATH", "=", "/", "bin">>, <<"CC", "=", "gcc">>>>,
     <<<<"CC", "=", "gcc">>, <<"CC", "=", "clang">>>>}

\* the library names on the command line
ArgLists == {<<"flux">>, <<"zlib", "flux">>}

\* GOCACHE
goCache == <<"/", "cache">>

\* The source tree of the flux module, in the order filepath.Walk visits it
\* (lexical): the root, a file, a directory with a file in it, a file.
\* last is the index of the last entry below (or at) the entry.
Tree ==
    <<[name |-> <<".">>, dir |-> TRUE, last |-> 5],
      [name |-> <<"a">>, dir |-> FALSE, last |-> 2],
      [name |-> <<"sub">>, dir |-> TRUE, last |-> 4],
      [name |-> <<"sub", "/", "b">>, dir |-> FALSE, last |-> 4],
      [name |-> <<"z">>, dir |-> FALSE, last |-> 5]>>

Entries == 1..Len(Tree)

\* the scratch destination: nothing there, or a complete copy of Tree
DestAbsent == [e \in Entries |-> "absent"]

DestComplete == [e \in Entries |-> IF Tree[e].dir THEN "dir" ELSE "full"]

\* the static libraries Install stages
libnames == <<"flux", "libstd">>

\* ------------------------------------------------------------------------
\* State
\* ------------------------------------------------------------------------

\* the invocations of the wrapper (processes) that may run side by side
Procs == {1, 2}

VARIABLES
    call,       \* SpecFn: the function applied and its inputs
    ret,        \* SpecFn: its result, once applied
    pc,         \* [Procs -> where the invocation is in realMain]
    todo,       \* [Procs -> the library names realMain's loop has not reached yet]
    lib,        \* [Procs -> the Library (Path, Version, Dir, Target)]
    found,      \* [Procs -> what Configure read and what findModule returned]
    mode,       \* [Procs -> what os.Stat(l.Dir) told copyIfReadOnly: "rw", "ro", "missing"]
    srcdir,     \* [Procs -> copyIfReadOnly's destination, <<>> before it is computed]
    cursor,     \* [Procs -> index of the loop in progress: Walk's entry, Install's libname]
    wrote,      \* [Procs -> the invocation created or wrote something in the destination]
    after,      \* [Procs -> copyIfReadOnly began after the other invocation's had succeeded]
    faults,     \* [Procs -> the stages in which an operation of the invocation failed]
    cmd,        \* [Procs -> the cargo command that was run]
    desc,       \* [Procs -> the package-description file flux.pc]
    queried,    \* [Procs -> the external pkg-config was run]
    exit,       \* [Procs -> the process result: -1 running, 0, 1, 2 (panic)]
    dest,       \* the scratch destination <cache>/pkgconfig/<path>@<version>, per Tree entry:
                \* "absent", "dir", "full" (a file with the source's bytes),
                \* "partial" (a file created, bytes missing), "sentinel" (somebody else's bytes)
    sentinel,   \* a sentinel was written into the destination
    libdir      \* [libname -> "absent", "old" (an earlier run's artifact), "new"]

fnVars == <<call, ret>>

runVars ==
    <<pc, todo, lib, found, mode, srcdir, cursor, wrote, after, faults, cmd, desc,
      queried, exit, dest, sentinel, libdir>>

vars == <<fnVars, runVars>>

NoLib == Lib(<<>>, <<>>, <<>>, Target(<<>>, <<>>, <<>>, FALSE))

NotFound ==
    [done |-> FALSE,
     mod |-> [Module |-> <<>>, Replace |-> <<>>, Require |-> <<>>],
     git |-> GitFailed, dl |-> DlFailed,
     r |-> ModErr(FALSE, FALSE, NoVersion)]

NoCmd == [run |-> FALSE]

NoDesc == [state |-> "none", Version |-> <<>>, Libs |-> <<>>]

\* the invocations at the positions at, nothing done yet
RunInit(at) ==
    /\ pc = at
    /\ todo = [p \in Procs |-> <<>>]
    /\ lib = [p \in Procs |-> NoLib]
    /\ found = [p \in Procs |-> NotFound]
    /\ mode = [p \in Procs |-> "?"]
    /\ srcdir = [p \in Procs |-> <<>>]
    /\ cursor = [p \in Procs |-> 0]
    /\ wrote = [p \in Procs |-> FALSE]
    /\ after = [p \in Procs |-> FALSE]
    /\ faults = [p \in Procs |-> {}]
    /\ cmd = [p \in Procs |-> NoCmd]
    /\ desc = [p \in Procs |-> NoDesc]
    /\ queried = [p \in Procs |-> FALSE]
    /\ exit = [p \in Procs |-> -1]
    /\ sentinel = FALSE

\* ------------------------------------------------------------------------
\* main.go: the wrapper takes itself off PATH
\* ------------------------------------------------------------------------

pkgConfigExecName == <<"pkg-config">>

\* strings.Split(s, ":") from index i on, cur the entry begun
RECURSIVE SplitFrom(_, _, _)
SplitFrom(s, i, cur) ==
    IF i > Len(s) THEN <<cur>>
    ELSE IF s[i] = ":" THEN <<cur>> \o SplitFrom(s, i + 1, <<>>)
    ELSE SplitFrom(s, i + 1, Append(cur, s[i]))

\* filepath.SplitList: the empty string has no entries
SplitList(path) == IF path = <<>> THEN <<>> ELSE SplitFrom(path, 1, <<>>)

\* strings.Join(list, ":") of list[i..]
RECURSIVE JoinList(_, _)
JoinList(list, i) ==
    IF i > Len(list) THEN <<>>
    ELSE IF i = Len(list) THEN list[i]
    ELSE list[i] \o <<":">> \o JoinList(list, i + 1)

\* getArg0Path: os.Args[0] as it is when it holds a separator, else below the
\* working directory
getArg0Path(arg0, cwd) ==
    IF \E i \in 1..Len(arg0) : arg0[i] = "/" THEN arg0 ELSE Join(cwd, arg0)

\* the directory a PATH entry stands for in modifyPath: "" means "."
entryDir(cwd, dir) == Abs(cwd, IF dir = <<>> THEN <<".">> ELSE dir)

\* modifyPath(arg0path): the new value of PATH
modifyPath(path, arg0path, cwd) ==
    Bind(SplitList(path), LAMBDA list :
        Bind({i \in 1..Len(list) :
                 Join(entryDir(cwd, list[i]), pkgConfigExecName) = arg0path}, LAMBDA hits :
            IF hits = {} THEN JoinList(list, 1)
            ELSE JoinList(list, 1 + CHOOSE i \in hits : \A j \in hits : j <= i)))

\* the directory the wrapper is installed in, one with the real pkg-config, one
\* without any, and a project directory
wrapDir == <<"/", "opt", "/", "wrap">>

realDir == <<"/", "usr", "/", "bin">>

projDir == <<"/", "proj">>

\* the directories that hold an executable named pkg-config
HoldsPkgConfig(dir) == dir \in {wrapDir, realDir}

\* exec.LookPath("pkg-config") under PATH path: the first entry whose directory
\* holds the file. A match through a relative entry is an error (ErrDot) from
\* Go 1.19 on and a relative path before: dotAllowed tells which.
LookPath(path, cwd, dotAllowed) ==
    Bind(SplitList(path), LAMBDA list :
        Bind({i \in 1..Len(list) : HoldsPkgConfig(entryDir(cwd, list[i]))}, LAMBDA hits :
            IF hits = {} THEN [ok |-> FALSE, dir |-> <<>>]
            ELSE Bind(list[Least(hits)], LAMBDA dir :
                    IF (dir = <<>> \/ dir[1] # "/") /\ ~dotAllowed
                    THEN [ok |-> FALSE, dir |-> <<>>]
                    ELSE [ok |-> TRUE, dir |-> entryDir(cwd, dir)])))

\* realMain, lines 158-163: getArg0Path, modifyPath, exec.LookPath
selfExclude(path, arg0, cwd, dotAllowed) ==
    Bind(getArg0Path(arg0, cwd), LAMBDA arg0path :
        Bind(modifyPath(path, arg0path, cwd), LAMBDA newPath :
            [arg0path |-> arg0path, PATH |-> newPath,
             look |-> LookPath(newPath, cwd, dotAllowed)]))

PathEntries == {wrapDir, realDir, <<>>, <<".">>}

PathStrings == {JoinList(l, 1) : l \in SeqsUpTo(PathEntries, MaxPathLen)}

\* how the wrapper was started: by its absolute path, by ./pkg-config from its
\* own directory, or by its bare name, found through PATH by the caller (the
\* first entry of PATH that holds a pkg-config is then the wrapper's directory)
Starts ==
    {[path |-> pth, arg0 |-> wrapDir \o <<"/">> \o pkgConfigExecName, cwd |-> c] :
        pth \in PathStrings, c \in {projDir, wrapDir}}
    \cup {[path |-> pth, arg0 |-> <<".", "/">> \o pkgConfigExecName, cwd |-> wrapDir] :
            pth \in PathStrings}
    \cup {st \in [path : PathStrings, arg0 : {pkgConfigExecName}, cwd : {projDir, wrapDir}] :
            LET look == LookPath(st.path, st.cwd, TRUE)
            IN  look.ok /\ look.dir = wrapDir}

\* ------------------------------------------------------------------------
\* SpecFn: the functions of build.go, each applied to a drawn input
\* ------------------------------------------------------------------------

\* what git and go mod download answer to one findModule: a call runs at most one
\* of the two, so each answer is varied with the other one failing
LocatorAnswers ==
    {[git |-> g, dl |-> DlFailed] : g \in FewGitAnswers}
        \cup {[git |-> GitFailed, dl |-> d] : d \in DlAnswers}

FnCalls ==
    {[fn |-> "getVersionFromGit", git |-> g] : g \in GitAnswers}
    \cup {[fn |-> "getVersion", dir |-> d, git |-> g] : d \in Dirs, g \in GitAnswers}
    \cup {[fn |-> "findModule", mod |-> m, cwd |-> c, git |-> a.git, dl |-> a.dl] :
            m \in Manifests, c \in {modroot, subdir}, a \in LocatorAnswers}
    \cup {[fn |-> "build", l |-> Lib(modulePath, Tag(0, 5, 0), absFlux, t), environ |-> e] :
            t \in GetTargets, e \in PipeEnvirons}
    \cup {[fn |-> "build", l |-> Lib(modulePath, Tag(0, 5, 0), absFlux, t), environ |-> e] :
            t \in PipeTargets, e \in Environs}
    \cup {[fn |-> "String", t |-> t, u |-> u] : t \in EnvTargets, u \in EnvTargets}
    \cup {[fn |-> "modifyPath", path |-> st.path, arg0 |-> st.arg0, cwd |-> st.cwd,
            dotAllowed |-> b] : st \in Starts, b \in BOOLEAN}

NotApplied == [done |-> FALSE]

Applied(r) == [done |-> TRUE, r |-> r]

InitFn ==
    /\ call \in FnCalls
    /\ ret = NotApplied
    /\ RunInit([p \in Procs |-> "off"])
    /\ dest = DestAbsent
    /\ libdir = [n \in {"flux", "libstd"} |-> "absent"]

ApplyGetVersionFromGit ==
    /\ call.fn = "getVersionFromGit" /\ ~ret.done
    /\ ret' = Applied(getVersionFromGit(call.git))
    /\ UNCHANGED <<call, runVars>>

ApplyGetVersion ==
    /\ call.fn = "getVersion" /\ ~ret.done
    /\ ret' = Applied(getVersion(call.dir, call.git))
    /\ UNCHANGED <<call, runVars>>

ApplyFindModule ==
    /\ call.fn = "findModule" /\ ~ret.done
    /\ ret' = Applied(findModule(call.mod, modroot, call.cwd, call.git, call.dl))
    /\ UNCHANGED <<call, runVars>>

ApplyBuild ==
    /\ call.fn = "build" /\ ~ret.done
    /\ ret' = Applied(buildCmd(call.l, call.environ))
    /\ UNCHANGED <<call, runVars>>

\* Target.String of two targets
ApplyString ==
    /\ call.fn = "String" /\ ~ret.done
    /\ ret' = Applied([s |-> TargetString(call.t), su |-> TargetString(call.u)])
    /\ UNCHANGED <<call, runVars>>

\* realMain up to exec.LookPath
ApplyModifyPath ==
    /\ call.fn = "modifyPath" /\ ~ret.done
    /\ ret' = Applied(selfExclude(call.path, call.arg0, call.cwd, call.dotAllowed))
    /\ UNCHANGED <<call, runVars>>

NextFn ==
    \/ ApplyGetVersionFromGit
    \/ ApplyGetVersion
    \/ ApplyFindModule
    \/ ApplyBuild
    \/ ApplyString
    \/ ApplyModifyPath

SpecFn == InitFn /\ [][NextFn]_vars

\* ------------------------------------------------------------------------
\* Scratch Copier and Descriptor Writer: what they compute
\* ------------------------------------------------------------------------

\* copyIfReadOnly's srcdir: filepath.Join(cache, "pkgconfig", l.Path+"@"+l.Version)
scratchDir(cache, l) == Join(Join(cache, <<"pkgconfig">>), l.Path \o <<"@">> \o l.Version)

\* the existence test without effect: the destination is never taken to exist
destExists_never(d) == FALSE

\* os.Stat(srcdir) succeeds: the destination's root directory is there
destExists(d) == d[1] # "absent"

\* the descriptor with the Libs line of a non-static linux build for every linux
WritePackageConfig_staticIgnored(l) ==
    [prefix |-> Join(l.Dir, <<"libflux">>),
     target |-> TargetString(l.Target),
     Version |-> Tail(l.Version),
     Libs |-> IF l.Target.OS = <<"linux">>
              THEN <<"-L${libdir}", "-lflux", "-llibstd", "-ldl">>
              ELSE <<"-L${libdir}", "-lflux", "-llibstd">>]

\* Library.WritePackageConfig: the lines that depend on the Library
WritePackageConfig(l) ==
    [prefix |-> Join(l.Dir, <<"libflux">>),
     target |-> TargetString(l.Target),
     Version |-> Tail(l.Version),
     Libs |-> IF l.Target.OS = <<"linux">>
              THEN IF l.Target.Static
                   THEN <<"-L${libdir}", "-lflux", "-llibstd", "-ldl", "-lpthread">>
                   ELSE <<"-L${libdir}", "-lflux", "-llibstd", "-ldl">>
              ELSE <<"-L${libdir}", "-lflux", "-llibstd">>]

\* ------------------------------------------------------------------------
\* Spec: one invocation of the wrapper, realMain step by step
\* ------------------------------------------------------------------------

\* go on at position at
Goto(p, at) ==
    /\ pc' = [pc EXCEPT ![p] = at]
    /\ UNCHANGED <<exit, faults>>

\* an operation of stage failed and the code goes on at position at all the same
Swallow(p, at, stage) ==
    /\ pc' = [pc EXCEPT ![p] = at]
    /\ faults' = [faults EXCEPT ![p] = @ \cup {stage}]
    /\ UNCHANGED exit

\* an operation of stage failed and the process ends with code (2: a panic)
Abort(p, stage, code) ==
    /\ pc' = [pc EXCEPT ![p] = "exit"]
    /\ exit' = [exit EXCEPT ![p] = code]
    /\ faults' = [faults EXCEPT ![p] = @ \cup {stage}]

\* realMain up to the loop: the logger, PATH, exec.LookPath, parseFlags, TempDir
Startup(p) ==
    /\ pc[p] = "start"
    /\ \E out \in {"ok", "lookpath", "flags", "tempdir"}, args \in ArgLists :
          IF out = "ok"
          THEN Goto(p, "loop") /\ todo' = [todo EXCEPT ![p] = args]
          ELSE Abort(p, "startup", 1) /\ UNCHANGED todo
    /\ UNCHANGED <<fnVars, lib, found, mode, srcdir, cursor, wrote, after, cmd, desc,
                   queried, dest, sentinel, libdir>>

\* the head of realMain's loop and getLibraryFor: after the last name the query
\* tool is next; "flux" is configured; any other name is passed over
Loop(p) ==
    /\ pc[p] = "loop"
    /\ IF todo[p] = <<>> THEN Goto(p, "query") /\ UNCHANGED todo
       ELSE IF Head(todo[p]) = "flux" THEN Goto(p, "configure") /\ UNCHANGED todo
       ELSE Goto(p, "loop") /\ todo' = [todo EXCEPT ![p] = Tail(@)]
    /\ UNCHANGED <<fnVars, lib, found, mode, srcdir, cursor, wrote, after, cmd, desc,
                   queried, dest, sentinel, libdir>>

\* flux.Configure: getTarget, go.mod read and parsed, findModule
Configure(p) ==
    /\ pc[p] = "configure"
    /\ \E pre \in {"ok", "target", "read", "parse"}, t \in PipeTargets,
          m \in PipeManifests, g \in FewGitAnswers, d \in DlAnswers :
          IF pre # "ok" THEN Abort(p, "configure", 1) /\ UNCHANGED <<lib, found>>
          ELSE LET r == findModule(m, modroot, modroot, g, d) IN
               /\ found' = [found EXCEPT ![p] =
                              [done |-> TRUE, mod |-> m,
                               git |-> IF r.git THEN g ELSE GitFailed,
                               dl |-> IF r.download THEN d ELSE DlFailed,
                               r |-> r]]
               /\ IF r.err THEN Abort(p, "configure", 1) /\ UNCHANGED lib
                  ELSE /\ Goto(p, "copy")
                       /\ lib' = [lib EXCEPT ![p] = Lib(r.ver.Path, r.ver.Version, r.dir, t)]
    /\ UNCHANGED <<fnVars, todo, mode, srcdir, cursor, wrote, after, cmd, desc,
                   queried, dest, sentinel, libdir>>

\* another invocation's copyIfReadOnly has returned nil with the destination as Dir
OtherCopied(p) ==
    \E o \in Procs \ {p} : pc[o] = "build" /\ srcdir[o] # <<>> /\ lib[o].Dir = srcdir[o]

\* copyIfReadOnly, lines 142-156: os.Stat(l.Dir), getGoCache, srcdir
CopyBegin(p) ==
    /\ pc[p] = "copy"
    /\ \E st \in {"missing", "rw", "ro"}, cacheOk \in BOOLEAN :
          /\ mode' = [mode EXCEPT ![p] = st]
          /\ CASE st = "missing" -> Abort(p, "copy", 1) /\ UNCHANGED srcdir
               [] st = "rw" -> Goto(p, "build") /\ UNCHANGED srcdir
               [] st = "ro" /\ ~cacheOk -> Abort(p, "copy", 1) /\ UNCHANGED srcdir
               [] st = "ro" /\ cacheOk ->
                    /\ Goto(p, "exists")
                    /\ srcdir' = [srcdir EXCEPT ![p] = scratchDir(goCache, lib[p])]
    /\ after' = [after EXCEPT ![p] = OtherCopied(p)]
    /\ UNCHANGED <<fnVars, todo, lib, found, cursor, wrote, cmd, desc,
                   queried, dest, sentinel, libdir>>

\* copyIfReadOnly, lines 157-160: the destination is there, so it is the copy
CopyExists(p) ==
    /\ pc[p] = "exists"
    /\ IF destExists(dest)
       THEN Goto(p, "build") /\ lib' = [lib EXCEPT ![p].Dir = srcdir[p]] /\ UNCHANGED cursor
       ELSE Goto(p, "walk") /\ cursor' = [cursor EXCEPT ![p] = 1] /\ UNCHANGED lib
    /\ UNCHANGED <<fnVars, todo, found, mode, srcdir, wrote, after, cmd, desc,
                   queried, dest, sentinel, libdir>>

\* Walk has visited entry e and goes on at entry n: past the last entry
\* copyIfReadOnly sets l.Dir (line 193) and returns nil
WalkOn(p, n, swallowed) ==
    /\ IF swallowed
       THEN Swallow(p, IF n > Len(Tree) THEN "build" ELSE "walk", "copy")
       ELSE Goto(p, IF n > Len(Tree) THEN "build" ELSE "walk")
    /\ cursor' = [cursor EXCEPT ![p] = n]
    /\ lib' = IF n > Len(Tree) THEN [lib EXCEPT ![p].Dir = srcdir[p]] ELSE lib

\* copyIfReadOnly, lines 163-191: filepath.Walk calls the function on one entry.
\* Walk lstats the entry (the function is handed a nil FileInfo when that fails
\* and dereferences it); it reads a directory's names before it calls the function
\* and hands the read error over, which the function overwrites in line 164: Walk
\* then goes on after the directory, with what the function returned.
WalkStep(p) ==
    /\ pc[p] = "walk"
    /\ LET e == cursor[p] IN
       IF Tree[e].dir
       THEN \E lstat \in BOOLEAN, readdir \in BOOLEAN, mkdir \in BOOLEAN :
               IF ~lstat THEN Abort(p, "copy", 2) /\ UNCHANGED <<cursor, lib, dest, wrote>>
               ELSE IF ~mkdir THEN Abort(p, "copy", 1) /\ UNCHANGED <<cursor, lib, dest, wrote>>
               ELSE /\ dest' = [dest EXCEPT ![e] = "dir"]
                    /\ wrote' = [wrote EXCEPT ![p] = TRUE]
                    /\ WalkOn(p, IF readdir THEN e + 1 ELSE Tree[e].last + 1, ~readdir)
       ELSE \E out \in {"lstat", "open", "create", "copy", "close", "ok"} :
               CASE out = "lstat" -> Abort(p, "copy", 2) /\ UNCHANGED <<cursor, lib, dest, wrote>>
                 [] out \in {"open", "create"} ->
                        Abort(p, "copy", 1) /\ UNCHANGED <<cursor, lib, dest, wrote>>
                 [] out \in {"copy", "close"} ->
                        /\ Abort(p, "copy", 1)
                        /\ dest' = [dest EXCEPT ![e] = "partial"]
                        /\ wrote' = [wrote EXCEPT ![p] = TRUE]
                        /\ UNCHANGED <<cursor, lib>>
                 [] out = "ok" ->
                        /\ dest' = [dest EXCEPT ![e] = "full"]
                        /\ wrote' = [wrote EXCEPT ![p] = TRUE]
                        /\ WalkOn(p, e + 1, FALSE)
    /\ UNCHANGED <<fnVars, todo, found, mode, srcdir, after, cmd, desc,
                   queried, sentinel, libdir>>

\* Library.build: the cargo command is run in the ambient environment environ
Build(p) ==
    /\ pc[p] = "build"
    /\ \E environ \in PipeEnvirons, ok \in BOOLEAN :
          /\ cmd' = [cmd EXCEPT ![p] = [run |-> TRUE, c |-> buildCmd(lib[p], environ)]]
          /\ IF ok THEN Goto(p, "mkdir") ELSE Abort(p, "build", 1)
    /\ UNCHANGED <<fnVars, todo, lib, found, mode, srcdir, cursor, wrote, after, desc,
                   queried, dest, sentinel, libdir>>

\* Install, lines 117-121: os.MkdirAll(libdir)
MkLibdir(p) ==
    /\ pc[p] = "mkdir"
    /\ \E ok \in BOOLEAN :
          IF ok THEN Goto(p, "link") /\ cursor' = [cursor EXCEPT ![p] = 1]
          ELSE Abort(p, "stage", 1) /\ UNCHANGED cursor
    /\ UNCHANGED <<fnVars, todo, lib, found, mode, srcdir, wrote, after, cmd, desc,
                   queried, dest, sentinel, libdir>>

\* the staging of one library name that leaves the library directory as it is
Link_nothingStaged(p) ==
    /\ pc[p] = "link"
    /\ IF cursor[p] = Len(libnames)
       THEN Goto(p, "create") /\ UNCHANGED cursor
       ELSE Goto(p, "link") /\ cursor' = [cursor EXCEPT ![p] = @ + 1]
    /\ UNCHANGED <<fnVars, todo, lib, found, mode, srcdir, wrote, after, cmd, desc,
                   queried, dest, sentinel, libdir>>

\* Install, lines 124-136, for one library name: an artifact at the destination is
\* removed (the error of os.Remove is dropped), then the built one is hard-linked
Link(p) ==
    /\ pc[p] = "link"
    /\ LET k == cursor[p]
           name == libnames[k]
       IN  \E removed \in BOOLEAN, built \in BOOLEAN :
              IF built /\ (libdir[name] = "absent" \/ removed)
              THEN /\ libdir' = [libdir EXCEPT ![name] = "new"]
                   /\ IF k = Len(libnames)
                      THEN Goto(p, "create") /\ UNCHANGED cursor
                      ELSE Goto(p, "link") /\ cursor' = [cursor EXCEPT ![p] = k + 1]
              ELSE /\ Abort(p, "stage", 1)
                   /\ libdir' = [libdir EXCEPT ![name] =
                                    IF @ = "absent" \/ removed THEN "absent" ELSE @]
                   /\ UNCHANGED cursor
    /\ UNCHANGED <<fnVars, todo, lib, found, mode, srcdir, wrote, after, cmd, desc,
                   queried, dest, sentinel>>

\* realMain, lines 196-201: os.Create(pkgfile)
Create(p) ==
    /\ pc[p] = "create"
    /\ \E ok \in BOOLEAN :
          IF ok
          THEN /\ Goto(p, "write")
               /\ desc' = [desc EXCEPT ![p] = [NoDesc EXCEPT !.state = "created"]]
          ELSE Abort(p, "create", 1) /\ UNCHANGED desc
    /\ UNCHANGED <<fnVars, todo, lib, found, mode, srcdir, cursor, wrote, after, cmd,
                   queried, dest, sentinel, libdir>>

\* realMain, lines 203-206, and WritePackageConfig: l.Version[1:] panics on an
\* empty version; the error of every write is dropped and nil is returned, so the
\* loop goes on to the next name whether or not the writes reached the file
Write(p) ==
    /\ pc[p] = "write"
    /\ IF lib[p].Version = <<>>
       THEN Abort(p, "write", 2) /\ UNCHANGED <<desc, todo>>
       ELSE \E written \in BOOLEAN :
               /\ desc' = [desc EXCEPT ![p] =
                             [state |-> IF written THEN "complete" ELSE "incomplete",
                              Version |-> WritePackageConfig(lib[p]).Version,
                              Libs |-> WritePackageConfig(lib[p]).Libs]]
               /\ todo' = [todo EXCEPT ![p] = Tail(@)]
               /\ IF written THEN Goto(p, "loop") ELSE Swallow(p, "loop", "write")
    /\ UNCHANGED <<fnVars, lib, found, mode, srcdir, cursor, wrote, after, cmd,
                   queried, dest, sentinel, libdir>>

\* realMain, lines 210-215: runPkgConfig
Query(p) ==
    /\ pc[p] = "query"
    /\ queried' = [queried EXCEPT ![p] = TRUE]
    /\ \E ok \in BOOLEAN :
          IF ok
          THEN /\ pc' = [pc EXCEPT ![p] = "exit"]
               /\ exit' = [exit EXCEPT ![p] = 0]
               /\ UNCHANGED faults
          ELSE Abort(p, "query", 1)
    /\ UNCHANGED <<fnVars, todo, lib, found, mode, srcdir, cursor, wrote, after, cmd, desc,
                   dest, sentinel, libdir>>

Init ==
    /\ call = [fn |-> "none"]
    /\ ret = NotApplied
    /\ RunInit([p \in Procs |-> IF p = 1 THEN "start" ELSE "off"])
    /\ dest \in {DestAbsent, DestComplete}
    /\ libdir \in {[n \in {"flux", "libstd"} |-> "absent"], [n \in {"flux", "libstd"} |-> "old"]}

Next ==
    \E p \in Procs :
        \/ Startup(p)
        \/ Loop(p)
        \/ Configure(p)
        \/ CopyBegin(p)
        \/ CopyExists(p)
        \/ WalkStep(p)
        \/ Build(p)
        \/ MkLibdir(p)
        \/ Link(p)
        \/ Create(p)
        \/ Write(p)
        \/ Query(p)

Spec == Init /\ [][Next]_vars

\* ------------------------------------------------------------------------
\* SpecCopy: copyIfReadOnly of two invocations on the same module and version
\* ------------------------------------------------------------------------

\* the Library Configure returns for a fetched flux v0.5.0
fetched ==
    [done |-> TRUE,
     mod |-> [Module |-> hostPath, Replace |-> <<>>,
              Require |-> <<ModVer(modulePath, Tag(0, 5, 0))>>],
     git |-> GitFailed,
     dl |-> DlOk(Tag(0, 5, 0)),
     r |-> findModule([Module |-> hostPath, Replace |-> <<>>,
                       Require |-> <<ModVer(modulePath, Tag(0, 5, 0))>>],
                      modroot, modroot, GitFailed, DlOk(Tag(0, 5, 0)))]

\* somebody writes a sentinel over file a of the destination, between two calls:
\* after a call has returned the destination, while no call is under way
WriteSentinel ==
    /\ ~sentinel
    /\ \E p \in Procs : pc[p] = "build" /\ srcdir[p] # <<>> /\ lib[p].Dir = srcdir[p]
    /\ \A p \in Procs : pc[p] \notin {"exists", "walk"}
    /\ sentinel' = TRUE
    /\ dest' = [dest EXCEPT ![2] = "sentinel"]
    /\ UNCHANGED <<fnVars, pc, todo, lib, found, mode, srcdir, cursor, wrote, after, faults,
                   cmd, desc, queried, exit, libdir>>

InitCopy ==
    /\ call = [fn |-> "none"]
    /\ ret = NotApplied
    /\ pc = [p \in Procs |-> "copy"]
    /\ todo = [p \in Procs |-> <<"flux">>]
    /\ found = [p \in Procs |-> fetched]
    /\ \E t \in PipeTargets :
          lib = [p \in Procs |-> Lib(fetched.r.ver.Path, fetched.r.ver.Version, fetched.r.dir, t)]
    /\ mode = [p \in Procs |-> "?"]
    /\ srcdir = [p \in Procs |-> <<>>]
    /\ cursor = [p \in Procs |-> 0]
    /\ wrote = [p \in Procs |-> FALSE]
    /\ after = [p \in Procs |-> FALSE]
    /\ faults = [p \in Procs |-> {}]
    /\ cmd = [p \in Procs |-> NoCmd]
    /\ desc = [p \in Procs |-> NoDesc]
    /\ queried = [p \in Procs |-> FALSE]
    /\ exit = [p \in Procs |-> -1]
    /\ sentinel = FALSE
    /\ dest = DestAbsent
    /\ libdir = [n \in {"flux", "libstd"} |-> "absent"]

NextCopy ==
    \/ \E p \in Procs : CopyBegin(p) \/ CopyExists(p) \/ WalkStep(p)
    \/ WriteSentinel

SpecCopy == InitCopy /\ [][NextCopy]_vars

\* ------------------------------------------------------------------------
\* Claims on the functions (SpecFn)
\* ------------------------------------------------------------------------

\* the describe output without its line break
Described == SubSeq(call.git.out, 1, Len(call.git.out) - 1)

\* git describe was asked: getVersionFromGit, or getVersion on a directory whose
\* path holds no module-cache segment
GitDecides ==
    \/ call.fn = "getVersionFromGit"
    \/ call.fn = "getVersion" /\ call.dir \in {modroot, relFlux, absFlux}

\* C1: for a describe output v<major>.<minor>.<patch> without a suffix,
\* getVersionFromGit, and getVersion when the path strategy does not match, return
\* the tag itself, its leading v included (v1.2.3 for v1.2.3).
C1_ExactTagReturned ==
    (GitDecides /\ ret.done /\ ~call.git.err /\ call.git.out \in ExactDescribe)
        => ~ret.r.err /\ ret.r.v = Described

\* C3 as stated: for a describe output v<M>.<m>.<p>-<commits>-<hash> the result is
\* v<M>.<m+1>.0-<pre-release marker>, and never the tag v<M>.<m>.<p>.
C3_PreReleaseOfNextMinor ==
    \A M \in Nums, m \in Nums, p \in Nums, n \in CommitCounts :
        (GitDecides /\ ret.done /\ call.git = GitOk(Tag(M, m, p) \o CommitSuffix(n) \o <<"\n">>))
            => /\ ~ret.r.err
               /\ HasPrefix(ret.r.v, Tag(M, m + 1, 0) \o <<"-">>)
               /\ Len(ret.r.v) > Len(Tag(M, m + 1, 0)) + 1
               /\ ret.r.v # Tag(M, m, p)

\* C3 as amended: for a describe output v<M>.<m>.<p>-<commits>-<hash> the result is
\* exactly v<M>.<m+1>.0, the next minor release with no pre-release marker, and
\* never the tag v<M>.<m>.<p>.
C3_NextMinorRelease ==
    \A M \in Nums, m \in Nums, p \in Nums, n \in CommitCounts :
        (GitDecides /\ ret.done /\ call.git = GitOk(Tag(M, m, p) \o CommitSuffix(n) \o <<"\n">>))
            => /\ ~ret.r.err
               /\ ret.r.v = Tag(M, m + 1, 0)
               /\ ret.r.v # Tag(M, m, p)

\* a tag v1.9.2 with 14 commits after it was resolved (to v1.10.0)
C3_Witness ==
    /\ call.fn = "getVersionFromGit" /\ ret.done
    /\ call.git = GitOk(Tag(1, 9, 2) \o CommitSuffix(14) \o <<"\n">>)
    /\ ~ret.r.err

\* an entry of the environment that sets key
Sets(kv, key) == Len(kv) >= 2 /\ kv[1] = key /\ kv[2] = "="

\* C4: when DetermineCargoTarget gives a triple, cargo gets --target <triple> and
\* an environment with no entry at all for CC, CXX or AR, whatever the ambient
\* environment (also one that lists a variable twice); when it gives none, cargo
\* gets no --target and the ambient environment unchanged.
C4_EnvSanitized ==
    (call.fn = "build" /\ ret.done) =>
        LET triple == DetermineCargoTarget(call.l.Target) IN
        IF triple # <<>>
        THEN /\ ret.r.Args = <<"build", "--release", "--target">> \o triple
             /\ \A i \in 1..Len(ret.r.Env) :
                    \A key \in {"CC", "CXX", "AR"} : ~Sets(ret.r.Env[i], key)
        ELSE /\ ret.r.Args = <<"build", "--release">>
             /\ ret.r.Env = call.environ

\* the first directive of a list that names the flux module
FirstFor(entries, PathOf(_), i) ==
    /\ i \in 1..Len(entries)
    /\ PathOf(entries[i]) = modulePath
    /\ \A j \in 1..(i - 1) : PathOf(entries[j]) # modulePath

OldPath(r) == r.Old.Path

ReqPath(r) == r.Path

\* C5: when flux is not the main module and a replace directive names it, the
\* module is resolved from that directive's new path, whether or not a require
\* entry names it too; a require entry is used only when no replace directive
\* names flux.
C5_ReplaceBeforeRequire ==
    (call.fn = "findModule" /\ ret.done /\ call.mod.Module # modulePath) =>
        /\ \A i \in 1..Len(call.mod.Replace) :
              FirstFor(call.mod.Replace, OldPath, i) =>
                  /\ ret.r.arg = call.mod.Replace[i].New
                  /\ ret.r = getModule(call.mod.Replace[i].New, call.cwd, call.git, call.dl)
        /\ \A i \in 1..Len(call.mod.Require) :
              (FirstFor(call.mod.Require, ReqPath, i)
                  /\ \A k \in 1..Len(call.mod.Replace) : OldPath(call.mod.Replace[k]) # modulePath)
                  => ret.r.arg = call.mod.Require[i]

\* a manifest with a replace directive and a require entry for flux was resolved
C5_Witness ==
    /\ call.fn = "findModule" /\ ret.done /\ ~ret.r.err
    /\ call.mod.Module = hostPath
    /\ \E i \in 1..Len(call.mod.Replace) : OldPath(call.mod.Replace[i]) = modulePath
    /\ \E i \in 1..Len(call.mod.Require) : ReqPath(call.mod.Require[i]) = modulePath

\* C6: when flux is the main module, findModule returns the module root as the
\* directory, flux as the identity and the Version Resolver's answer for the
\* module root as the version (its error when it has none), and go mod download
\* is not run, whatever replace and require entries the manifest holds.
C6_MainModuleIsModRoot ==
    (call.fn = "findModule" /\ ret.done /\ call.mod.Module = modulePath) =>
        /\ ~ret.r.download
        /\ ret.r.arg = NoVersion
        /\ LET v == getVersion(modroot, call.git) IN
           IF v.err THEN ret.r.err
           ELSE /\ ~ret.r.err
                /\ ret.r.dir = modroot
                /\ ret.r.ver = [Path |-> modulePath, Version |-> v.v]

\* flux as the main module of a manifest that also replaces and requires flux
C6_Witness ==
    /\ call.fn = "findModule" /\ ret.done /\ ~ret.r.err
    /\ call.mod.Module = modulePath
    /\ call.cwd = subdir
    /\ \E i \in 1..Len(call.mod.Replace) : OldPath(call.mod.Replace[i]) = modulePath
    /\ \E i \in 1..Len(call.mod.Require) : ReqPath(call.mod.Require[i]) = modulePath

\* ------------------------------------------------------------------------
\* Claims on the pipeline (Spec)
\* ------------------------------------------------------------------------

\* the version the Version Resolver is to give for what Configure found: the
\* fetch result's version, the tag git describe printed when it printed a bare
\* tag, and else the version on the Library (cache path, tag with commits)
Resolved(f, l) ==
    IF f.r.download THEN f.dl.Version
    ELSE IF f.r.git /\ ~f.git.err /\ f.git.out \in ExactDescribe
         THEN SubSeq(f.git.out, 1, Len(f.git.out) - 1)
         ELSE l.Version

\* C2: for every Library the pipeline produces, the descriptor's Version line is
\* the resolved version with only its leading v stripped (a main module tagged
\* exactly v0.5.0 yields Version: 0.5.0).
C2_VersionLine ==
    \A p \in Procs :
        desc[p].state = "complete"
            => <<"v">> \o desc[p].Version = Resolved(found[p], lib[p])

\* the stages of the pipeline for one library
Stages == {"configure", "copy", "build", "stage", "create", "write"}

\* C7: when a stage fails for a requested library the pipeline stops there, the
\* query tool is never invoked and the result is non-zero; the query tool is
\* invoked only after a complete descriptor was written.
C7_NoPartialSuccess ==
    \A p \in Procs :
        /\ faults[p] \cap Stages # {}
              => /\ ~queried[p]
                 /\ pc[p] \in {"walk", "exit"}
                 /\ pc[p] = "exit" => exit[p] # 0
        /\ queried[p] => desc[p].state = "complete"

\* C9: when a step of the recursive copy fails, copyIfReadOnly returns an error,
\* Library.Dir still holds the source directory and Install does not go on to the
\* build; when the source is writable, neither Library.Dir nor the filesystem
\* changes.
C9_CopyAllOrNothing ==
    \A p \in Procs :
        /\ "copy" \in faults[p]
              => /\ pc[p] \in {"walk", "exit"}
                 /\ pc[p] = "exit" => exit[p] # 0
                 /\ lib[p].Dir = found[p].r.dir
                 /\ ~cmd[p].run
        /\ mode[p] = "rw"
              => lib[p].Dir = found[p].r.dir /\ ~wrote[p] /\ srcdir[p] = <<>>

\* C10: the destination of the copy is <cache>/pkgconfig/<identity>@<version>
\* with the non-empty identity of the resolved module, for every Library that
\* Configure produces.
C10_DestinationKey ==
    \A p \in Procs :
        srcdir[p] # <<>>
            => /\ lib[p].Path # <<>>
               /\ lib[p].Path = modulePath
               /\ srcdir[p] = Join(Join(goCache, <<"pkgconfig">>),
                                   modulePath \o <<"@">> \o lib[p].Version)

\* ------------------------------------------------------------------------
\* Claims on the copy (SpecCopy)
\* ------------------------------------------------------------------------

\* the call of q began after another call had returned the destination, and
\* found the source read-only
SecondCall(q) == after[q] /\ mode[q] = "ro" /\ srcdir[q] # <<>>

\* C8: a second copyIfReadOnly for the same read-only source, identity and
\* version ends with Library.Dir the same destination as the first, and creates
\* or writes nothing there: a sentinel written between the calls stays.
C8_SecondCallCopiesNothing ==
    \A q \in Procs :
        SecondCall(q)
            => /\ pc[q] \in {"exists", "build"}
               /\ ~wrote[q]
               /\ pc[q] = "build"
                     => /\ lib[q].Dir = srcdir[q]
                        /\ \A o \in Procs \ {q} : lib[o].Dir = lib[q].Dir
               /\ sentinel => dest[2] = "sentinel"

C8_Witness ==
    \E q \in Procs :
        /\ SecondCall(q)
        /\ pc[q] = "build"
        /\ lib[q].Dir = srcdir[q]
        /\ sentinel
        /\ dest[2] = "sentinel"

\* ------------------------------------------------------------------------
\* Claims on the target (SpecFn)
\* ------------------------------------------------------------------------

\* the enumerated table: the combinations that have a cargo triple
InTable(t) ==
    \/ t.OS = <<"linux">> /\ t.Arch = <<"amd64">>
    \/ t.OS = <<"linux">> /\ t.Arch \in {<<"386">>, <<"arm64">>} /\ ~t.Static
    \/ t.OS = <<"linux">> /\ t.Arch = <<"arm">> /\ t.Arm \in {<<"6">>, <<"7">>} /\ ~t.Static
    \/ t.OS \in {<<"darwin">>, <<"windows">>} /\ t.Arch = <<"amd64">>

\* C11: linux/amd64 maps to the musl triple when static and to the glibc triple
\* when not; a combination outside the table gives no triple and a warning, and
\* the cargo command is still formed and run, without --target.
C11_CargoTriple ==
    (call.fn = "build" /\ ret.done) =>
        LET t == call.l.Target IN
        /\ (t.OS = <<"linux">> /\ t.Arch = <<"amd64">> /\ t.Static)
              => /\ ret.r.Args = <<"build", "--release", "--target", "x86_64-unknown-linux-musl">>
                 /\ ~ret.r.warned
        /\ (t.OS = <<"linux">> /\ t.Arch = <<"amd64">> /\ ~t.Static)
              => /\ ret.r.Args = <<"build", "--release", "--target", "x86_64-unknown-linux-gnu">>
                 /\ ~ret.r.warned
        /\ ~InTable(t)
              => /\ ret.r.warned
                 /\ ret.r.Args = <<"build", "--release">>
                 /\ ret.r.Env = call.environ
                 /\ ret.r.targetDir = Join(Join(ret.r.Dir, <<"target">>), <<"release">>)

C11_Witness ==
    /\ call.fn = "build" /\ ret.done
    /\ call.l.Target.OS = <<"linux">> /\ call.l.Target.Arch = <<"386">> /\ call.l.Target.Static
    /\ ret.r.warned
    /\ ret.r.Args = <<"build", "--release">>

\* C12: two Targets that differ in OS, architecture, ARM variant or static flag
\* never have the same Target.String().
C12_StringInjective ==
    (call.fn = "String" /\ ret.done /\ call.t # call.u) => ret.r.s # ret.r.su

\* ------------------------------------------------------------------------
\* Claims on the descriptor and the staging (Spec)
\* ------------------------------------------------------------------------

\* the Libs line of the descriptor of p holds the flag
HasFlag(p, flag) == \E i \in 1..Len(desc[p].Libs) : desc[p].Libs[i] = flag

\* C13: the Libs line of a written descriptor holds -ldl and -lpthread for a
\* static linux target, -ldl without -lpthread for a non-static linux target, and
\* neither for any other OS, static or not.
C13_LinkFlags ==
    \A p \in Procs :
        desc[p].state = "complete" =>
            LET t == lib[p].Target IN
            /\ (t.OS = <<"linux">> /\ t.Static)
                  => HasFlag(p, "-ldl") /\ HasFlag(p, "-lpthread")
            /\ (t.OS = <<"linux">> /\ ~t.Static)
                  => HasFlag(p, "-ldl") /\ ~HasFlag(p, "-lpthread")
            /\ t.OS # <<"linux">>
                  => ~HasFlag(p, "-ldl") /\ ~HasFlag(p, "-lpthread")

C13_Witness ==
    \E p \in Procs :
        /\ desc[p].state = "complete"
        /\ lib[p].Target.OS = <<"linux">> /\ lib[p].Target.Static
        /\ HasFlag(p, "-ldl") /\ HasFlag(p, "-lpthread")

\* ------------------------------------------------------------------------
\* Claims on the Version Resolver and the Module Locator (SpecFn)
\* ------------------------------------------------------------------------

\* dir holds a module-cache segment /github.com/influxdata/flux@v<M>.<m>.<p>
InCache(dir) ==
    \E i \in 1..Len(dir) :
        HasAt(dir, i, cacheSegment) /\ VerEnd(dir, i + Len(cacheSegment)) # 0

\* the version of that segment: what stands between the @ and the end of the
\* path component
AtVersion(dir) ==
    LET at == CHOOSE i \in 1..Len(dir) : dir[i] = "@"
        seps == {j \in (at + 1)..Len(dir) : dir[j] = "/"}
    IN  SubSeq(dir, at + 1, IF seps = {} THEN Len(dir) ELSE Least(seps) - 1)

\* C14: for a directory whose path holds a module-cache segment getVersion
\* returns the version of the segment as it stands there and git is not run; git
\* is run only when the path strategy found no match.
C14_PathFirst ==
    (call.fn = "getVersion" /\ ret.done) =>
        /\ InCache(call.dir)
              => ~ret.r.err /\ ret.r.v = AtVersion(call.dir) /\ ~ret.r.git
        /\ ret.r.git => ~InCache(call.dir)

\* Install of p has returned nil
Installed(p) == pc[p] \in {"create", "write"} \/ desc[p].state # "none"

\* C15: after Install has returned success the library directory holds, for
\* libflux.a and for liblibstd.a, a hard link to the artifact of this build; an
\* artifact of an earlier run was removed before the link was made and is not
\* what is there.
C15_ArtifactsStaged ==
    \A p \in Procs :
        Installed(p) => /\ cmd[p].run
                        /\ \A k \in 1..Len(libnames) : libdir[libnames[k]] = "new"

C15_Witness ==
    \E p \in Procs :
        /\ pc[p] = "create"
        /\ cmd[p].run
        /\ \A k \in 1..Len(libnames) : libdir[libnames[k]] = "new"

\* the path of a directive begins with / or .
IsLocal(path) == path # <<>> /\ path[1] \in {"/", "."}

\* no replace directive and no require entry of the manifest names flux
NoEntry(mod) ==
    /\ \A k \in 1..Len(mod.Replace) : OldPath(mod.Replace[k]) # modulePath
    /\ \A k \in 1..Len(mod.Require) : ReqPath(mod.Require[k]) # modulePath

\* C16: when the entry findModule chose has a path that begins with / or . the
\* module is resolved locally, with the version of the Version Resolver on that
\* path and the absolute path as directory, and go mod download is not run; it
\* is run only for a chosen entry without such a prefix, and when no entry names
\* flux findModule fails without running it.
C16_LocalNeverFetched ==
    (call.fn = "findModule" /\ ret.done /\ call.mod.Module # modulePath) =>
        LET a == ret.r.arg IN
        /\ IsLocal(a.Path)
              => /\ ~ret.r.download
                 /\ LET v == getVersion(a.Path, call.git) IN
                    IF v.err THEN ret.r.err
                    ELSE /\ ~ret.r.err
                         /\ ret.r.ver.Version = v.v
                         /\ ret.r.dir = Abs(call.cwd, a.Path)
        /\ ret.r.download => a # NoVersion /\ ~IsLocal(a.Path)
        /\ NoEntry(call.mod) => ret.r.err /\ ~ret.r.download /\ a = NoVersion
        /\ ~NoEntry(call.mod) => a # NoVersion /\ (IsLocal(a.Path) \/ ret.r.download)

C16_Witness ==
    /\ call.fn = "findModule" /\ ret.done /\ call.mod.Module # modulePath
    /\ ret.r.arg.Path = relFlux
    /\ ~ret.r.err /\ ~ret.r.download
    /\ ret.r.dir = <<"/", "work", "/", "flux">>

\* ------------------------------------------------------------------------
\* Claims on the copy across invocations (SpecCopy)
\* ------------------------------------------------------------------------

\* this step is the return of copyIfReadOnly of p with nil and the destination
\* as Library.Dir, and no operation of p itself has failed
ReturnsDestination(p) ==
    /\ pc[p] \in {"exists", "walk"}
    /\ pc'[p] = "build"
    /\ lib'[p].Dir = srcdir[p]
    /\ faults'[p] = {}

\* C17: in every sequence and interleaving of invocations on the same identity
\* and version, when an invocation returns success with Library.Dir the
\* destination, the destination then holds every directory and every file of the
\* source, the files with their whole content (stated for the invocations whose
\* own operations all succeeded, which leaves the dropped read error aside).
C17_CompleteOnReturn ==
    [][\A p \in Procs : ReturnsDestination(p) => dest' = DestComplete]_vars

\* ------------------------------------------------------------------------
\* Claims on the wrapper's PATH (SpecFn)
\* ------------------------------------------------------------------------

\* the entries of PATH whose absolute directory joined with the wrapper's name
\* is arg0path
Matching(entries, cwd, arg0path) ==
    {i \in 1..Len(entries) :
        Join(Abs(cwd, IF entries[i] = <<>> THEN <<".">> ELSE entries[i]),
             <<"pkg-config">>) = arg0path}

\* C18: when a PATH entry matches arg0path the new PATH holds exactly the entries
\* after the last such entry, in their order, and the pkg-config the lookup then
\* finds is not the running wrapper; when none matches, PATH keeps its entries.
C18_SelfExcluded ==
    (call.fn = "modifyPath" /\ ret.done) =>
        LET old == SplitList(call.path)
            hits == Matching(old, call.cwd, ret.r.arg0path)
            last == CHOOSE i \in hits : \A j \in hits : j <= i
        IN  IF hits # {}
            THEN /\ ret.r.PATH = JoinList(SubSeq(old, last + 1, Len(old)), 1)
                 /\ ~(ret.r.look.ok /\ ret.r.look.dir = wrapDir)
            ELSE ret.r.PATH = JoinList(old, 1)

====
